---- MODULE Spec2Model ----
(***************************************************************************)
(* HotstarMonitor (src/tamilmvbot/hotstar_handler.py) and the two kinds of *)
(* threads that call it in src/tamilmvbot/angel.py: the monitor thread     *)
(* running check_updates in a loop, and the bot's worker threads running   *)
(* monitor_handler -> add_show.  A step of the model is one access to the  *)
(* shared store (or one network call); threads interleave between steps.   *)
(***************************************************************************)
EXTENDS Integers, Sequences, FiniteSets, TLC

VARIABLES
    subscriptions,  \* self.subscriptions: url -> record, DOMAIN = tracked urls
    order,          \* insertion order of the keys of self.subscriptions
    persisted,      \* contents of self.data_file
    lock,           \* holder of self.lock
    hs,             \* worker thread -> locals of its add_show call
    adds,           \* number of add_show calls started
    ret,            \* what add_show returned (or the usage reply), when the last step was that
    ppc,            \* monitor thread: position in check_updates
    it_used,        \* dict size recorded by the items() iterator
    idx,            \* number of items the iterator has yielded
    cur,            \* local url
    detached,       \* local data, once it is no longer the object in the map
    cur_ok,         \* local current_episodes is not None
    p_init,         \* local initialized
    new_eps,        \* local new_episodes (ids)
    notifications,  \* local notifications
    attempts,       \* number of send_message calls of the send loop so far
    send_failed,    \* one of them raised
    pres,           \* how check_updates ended, when the last step ended it
    last_seen,      \* url -> what the last scrape of it by a monitored cycle returned
    run_same,       \* every scrape of this cycle returned what last_seen held
    page,           \* scrape_episodes: the href values of the anchors of the fetched page
    found           \* scrape_episodes: the list it returned for page

vars == <<subscriptions, order, persisted, lock, hs, adds, ret, ppc,
          it_used, idx, cur, detached, cur_ok, p_init, new_eps, notifications, attempts,
          send_failed, pres, last_seen, run_same, page, found>>

store_vars == <<subscriptions, order, persisted, lock>>
iter_vars == <<it_used, idx, cur>>
item_vars == <<detached, cur_ok, p_init, new_eps>>
send_vars == <<notifications, attempts, send_failed>>
poll_vars == <<ppc, iter_vars, item_vars, send_vars>>
hist_vars == <<last_seen, run_same>>
scrape_vars == <<page, found>>

----------------------------------------------------------------------------
\* Bounds of the model.
MaxAdds == 2

\* time.time(), as far as the program can tell times apart: the time of the
\* current period of the monitor loop, or a time before its last sleep ended.
Now == "now"
Earlier == "earlier"

\* Show urls, as url.strip('/').split('/') sees them.
U1 == <<"https:", "", "www.hotstar.com", "in", "shows", "bhargavi-ll-b", "1271396039">>
U2 == <<"https:", "", "www.hotstar.com", "in", "shows", "anupama", "1260022017">>
UBad == <<"https:", "", "www.example.com", "shows", "anupama">>
URLS == {U1, U2}
ARGS == URLS \cup {UBad}
NoUrl == <<>>

\* message.text.split() of a /monitor message: the command alone, with one
\* word, or with an argument and a word after it.
Command == <<"/monitor">>
Word == <<"please">>
MESSAGES ==
    {<<Command>>}
    \cup {<<Command, arg>> : arg \in ARGS \cup {Word}}
    \cup {<<Command, arg, Word>> : arg \in ARGS}

\* message.chat.id values, and the episode ids a show page can list, in page order.
CHAT_IDS == {101, 202}
EPISODES == <<"12345678", "23456789">>

HANDLERS == {"h1", "h2"}
NoThread == "none"
POLL == "poll"

Range(s) == {s[i] : i \in 1..Len(s)}

\* str(chat_id)
Str(n) == CASE n = 101 -> "101" [] n = 202 -> "202"

\* "hotstar.com" in url
HasDomain(url) == \E i \in 1..Len(url) : url[i] \in {"www.hotstar.com", "hotstar.com"}

\* slug.replace('-', ' ').title()
Titled(slug) ==
    CASE slug = "bhargavi-ll-b" -> "Bhargavi Ll B"
      [] slug = "anupama" -> "Anupama"
      [] OTHER -> slug

extract_title(url) ==
    IF \E i \in 1..Len(url) : url[i] = "shows"
    THEN LET i == CHOOSE k \in 1..Len(url) :
                      url[k] = "shows" /\ \A j \in 1..(k - 1) : url[j] # "shows"
         IN IF Len(url) > i THEN Titled(url[i + 1]) ELSE "Unknown Show"
    ELSE "Unknown Show"

\* Results of scrape_episodes: None, or the list of the episodes of the page.
ScrapeFailed == [ok |-> FALSE, ids |-> <<>>]
Scraped(ids) == [ok |-> TRUE, ids |-> ids]
PageList(S) == SelectSeq(EPISODES, LAMBDA e : e \in S)
scrape_episodes(url) == {ScrapeFailed} \cup {Scraped(PageList(S)) : S \in SUBSET Range(EPISODES)}
Unseen == [ok |-> FALSE, ids |-> <<"unseen">>]

\* "if current_episodes:" - None and the empty list are both falsy.
Truthy(eps) == eps.ok /\ eps.ids # <<>>

NoRec == [subscribers |-> <<>>, known_episodes |-> <<>>, last_check |-> Earlier,
          title |-> "", initialized |-> FALSE]

\* NewRecord with the truth value of the list as the initialized flag.
NewRecordTruthy(chat, url, episodes, now) ==
    [subscribers |-> <<chat>>,
     known_episodes |-> IF episodes.ok THEN episodes.ids ELSE <<>>,
     last_check |-> now,
     title |-> extract_title(url),
     initialized |-> Truthy(episodes)]

\* The record add_show stores for a new url (lines 54-74).
NewRecord(chat, url, episodes, now) ==
    [subscribers |-> <<chat>>,
     known_episodes |-> IF episodes.ok THEN episodes.ids ELSE <<>>,
     last_check |-> now,
     title |-> extract_title(url),
     initialized |-> episodes.ok]

\* NewEpisodes without the filter on known_ids.
NewEpisodesUnfiltered(current, known) == current

\* new_episodes = [e for e in current_episodes if e['id'] not in known_ids]
NewEpisodes(current, known) == SelectSeq(current, LAMBDA e : e \notin Range(known))

\* for subscriber in data['subscribers']: for ep in new_episodes: append
RECURSIVE Notifs(_, _, _)
Notifs(subscribers, new, url) ==
    IF subscribers = <<>> THEN <<>>
    ELSE [i \in 1..Len(new) |-> [chat_id |-> Head(subscribers), url |-> url, ep |-> new[i]]]
         \o Notifs(Tail(subscribers), new, url)

Put(map, url, rec) == [u \in DOMAIN map \cup {url} |-> IF u = url THEN rec ELSE map[u]]
EmptyMap == [u \in {} |-> NoRec]

NoRet == [ok |-> FALSE, msg |-> "none"]

IdleLocals == [pc |-> "idle", chat |-> "", url |-> NoUrl, path |-> ""]
NotDetached == [on |-> FALSE, rec |-> NoRec]

----------------------------------------------------------------------------
\* scrape_episodes, lines 111-155: the episodes of the anchors of a page.  A
\* string is the sequence of its characters and an href the sequence of the
\* pieces href.split('/') yields, so "/in/42/" is <<"", "in", "42", "">>.
MaxPieces == 3
MaxLinks == 2

Digits == {"0", "1", "2", "3", "4", "5", "6", "7", "8", "9"}
Empty == <<>>
In == <<"i", "n">>
Watch == <<"w", "a", "t", "c", "h">>
Short == <<"4", "2">>
Middle == <<"1", "2", "3", "4", "5", "6">>
Long == <<"8", "7", "6", "5", "4", "3", "2", "1">>
Other == <<"1", "6", "4", "1", "0", "1", "6", "1", "8", "1">>
Scheme == <<"h", "t", "t", "p", "s", ":">>
Host == <<"w", "w", "w", ".", "h", "o", "t", "s", "t", "a", "r", ".", "c", "o", "m">>
PIECES == {Empty, In, Watch, Short, Middle, Long, Other}

\* The hrefs that start with "/", and the pages made of them.
HREFS == {<<Empty>> \o rest : rest \in UNION {[1..n -> PIECES] : n \in 1..MaxPieces}}
PAGES == UNION {[1..n -> HREFS] : n \in 1..MaxLinks}

Last(seq) == seq[Len(seq)]
Front(seq) == SubSeq(seq, 1, Len(seq) - 1)

\* str.isdigit(), and the "in" of two strings.
isdigit(str) == str # <<>> /\ \A i \in 1..Len(str) : str[i] \in Digits
Contains(str, sub) ==
    \E i \in 0..(Len(str) - Len(sub)) : SubSeq(str, i + 1, i + Len(sub)) = sub

\* 'watch' in href: "watch" has no "/", so it lies within one piece.
HasWatch(href) == \E i \in 1..Len(href) : Contains(href[i], Watch)

\* Line 116.
Qualifies(href) == HasWatch(href) \/ (isdigit(Last(href)) /\ Len(Last(href)) > 5)

\* Line 118: href.startswith('http'), else the site is put in front.
StartsWithHttp(href) == Len(href[1]) >= 4 /\ SubSeq(href[1], 1, 4) = <<"h", "t", "t", "p">>
full_link(href) ==
    IF StartsWithHttp(href) THEN href
    ELSE <<Scheme, Empty, Host \o href[1]>> \o Tail(href)

\* Line 121: strip('/').split('/'); a string of slashes only splits into [''].
RECURSIVE RStrip(_)
RStrip(pieces) ==
    IF Len(pieces) > 1 /\ Last(pieces) = Empty THEN RStrip(Front(pieces)) ELSE pieces
RECURSIVE LStrip(_)
LStrip(pieces) ==
    IF Len(pieces) > 1 /\ Head(pieces) = Empty THEN LStrip(Tail(pieces)) ELSE pieces
Parts(href) == LStrip(RStrip(full_link(href)))

\* Lines 122-124.
ep_id(href) ==
    LET parts == Parts(href)
    IN IF Last(parts) = Watch /\ Len(parts) > 1 THEN parts[Len(parts) - 1] ELSE Last(parts)

\* Lines 116-128: the anchor yields an episode.
Yields(href) == Qualifies(href) /\ isdigit(ep_id(href)) /\ Len(ep_id(href)) >= 8

\* Lines 112-151: the ids of the episodes, in the order of the anchors.
RECURSIVE Episodes(_)
Episodes(links) ==
    IF links = <<>> THEN <<>>
    ELSE (IF Yields(Head(links)) THEN <<ep_id(Head(links))>> ELSE <<>>)
         \o Episodes(Tail(links))

\* Lines 154-155: a dict keyed by id keeps one entry per id, at its first position.
RECURSIVE Unique(_)
Unique(ids) ==
    IF ids = <<>> THEN <<>>
    ELSE LET front == Unique(Front(ids))
         IN IF Last(ids) \in Range(front) THEN front ELSE Append(front, Last(ids))

ParseLinks(links) == Unique(Episodes(links))

NotParsed == [done |-> FALSE, ids |-> <<>>]

----------------------------------------------------------------------------
\* The file after a dump that went through, and after one that raised: open()
\* has truncated the file, and what the dump wrote before it raised is no JSON.
Saved(map) == [valid |-> TRUE, map |-> map]
Unreadable == [valid |-> FALSE, map |-> EmptyMap]

\* load_data: the store is what an earlier run saved, or {} when there is no file.
LoadedStores == {EmptyMap, Put(EmptyMap, U1, NewRecord("101", U1, Scraped(<<>>), Earlier))}

Init ==
    /\ subscriptions \in LoadedStores
    /\ order = IF subscriptions = EmptyMap THEN <<>> ELSE <<U1>>
    /\ persisted = Saved(subscriptions)
    /\ lock = NoThread
    /\ hs = [h \in HANDLERS |-> IdleLocals]
    /\ adds = 0
    /\ ret = NoRet
    /\ ppc = "idle"
    /\ it_used = 0
    /\ idx = 0
    /\ cur = NoUrl
    /\ detached = NotDetached
    /\ cur_ok = FALSE
    /\ p_init = TRUE
    /\ new_eps = <<>>
    /\ notifications = <<>>
    /\ attempts = 0
    /\ send_failed = FALSE
    /\ pres = "none"
    /\ last_seen = [u \in URLS |-> Unseen]
    /\ run_same = FALSE
    /\ page = <<>>
    /\ found = NotParsed

\* Bookkeeping of the steps of add_show and of check_updates.
HStep ==
    /\ last_seen' = [u \in URLS |-> Unseen]
    /\ run_same' = FALSE
    /\ pres' = "none"
    /\ UNCHANGED scrape_vars

PStep == ret' = NoRet /\ UNCHANGED scrape_vars

----------------------------------------------------------------------------
\* save_data: "with self.lock:", then the dump, which may fail and is swallowed.
SaveAcquire(t) ==
    /\ lock = NoThread
    /\ lock' = t

\* SaveWrite without the release of the lock at the end of the with block.
SaveWriteKeepsLock(t) ==
    /\ lock = t
    /\ UNCHANGED lock
    /\ persisted' \in {Saved(subscriptions), Unreadable}

SaveWrite(t) ==
    /\ lock = t
    /\ lock' = NoThread
    /\ persisted' \in {Saved(subscriptions), Unreadable}

----------------------------------------------------------------------------
\* The bot hands a /monitor message to a free worker thread (the first one).
FreeWorker(h) == hs[h].pc = "idle" /\ (h = "h2" => hs["h1"].pc # "idle")

Locals(pc, chat, url) == [pc |-> pc, chat |-> chat, url |-> url, path |-> ""]

\* add_show, lines 36-43 and 47-48, called for chat_id c and url.
add_show(h, c, url) ==
    /\ adds' = adds + 1
    /\ IF ~HasDomain(url)
       THEN /\ ret' = [ok |-> FALSE, msg |-> "invalid"]
            /\ UNCHANGED hs
       ELSE IF url \in DOMAIN subscriptions
       THEN IF Str(c) \notin Range(subscriptions[url].subscribers)
            THEN /\ hs' = [hs EXCEPT ![h] = Locals("append", Str(c), url)]
                 /\ ret' = NoRet
            ELSE /\ ret' = [ok |-> FALSE, msg |-> "already"]
                 /\ UNCHANGED hs
       ELSE /\ hs' = [hs EXCEPT ![h] = Locals("scrape", Str(c), url)]
            /\ ret' = NoRet

\* monitor_handler (angel.py lines 70-76) for a message of chat c whose text
\* splits into args: the usage reply, or the call of add_show with args[1].
monitor_handler(h, c, args) ==
    IF Len(args) < 2
    THEN /\ ret' = [ok |-> FALSE, msg |-> "usage"]
         /\ UNCHANGED <<hs, adds>>
    ELSE add_show(h, c, args[2])

\* A worker thread takes a /monitor message.
HCall(h) ==
    /\ FreeWorker(h)
    /\ adds < MaxAdds
    /\ \E c \in CHAT_IDS, args \in MESSAGES : monitor_handler(h, c, args)
    /\ HStep
    /\ UNCHANGED <<store_vars, poll_vars>>

\* HAppend in an add_show that returns without calling save_data.
HAppendNoSave(h) ==
    /\ hs[h].pc = "append"
    /\ subscriptions' = [subscriptions EXCEPT ![hs[h].url].subscribers = Append(@, hs[h].chat)]
    /\ hs' = [hs EXCEPT ![h] = IdleLocals]
    /\ ret' = [ok |-> TRUE, msg |-> "added"]
    /\ HStep
    /\ UNCHANGED <<order, persisted, lock, adds, poll_vars>>

\* Line 44.
HAppend(h) ==
    /\ hs[h].pc = "append"
    /\ subscriptions' = [subscriptions EXCEPT ![hs[h].url].subscribers = Append(@, hs[h].chat)]
    /\ hs' = [hs EXCEPT ![h].pc = "save", ![h].path = "added"]
    /\ ret' = NoRet
    /\ HStep
    /\ UNCHANGED <<order, persisted, lock, adds, poll_vars>>

\* The monitor thread holds the object this url maps to.
PollHolds(url) == ppc \in {"scrape", "notify", "save", "write"} /\ cur = url

\* Lines 51-74: scrape_episodes returns and the record is stored.  The assignment
\* binds url to a new object; a data reference the monitor thread took earlier
\* keeps pointing at the old one.
Create(h, episodes) ==
    /\ hs[h].pc = "scrape"
    /\ subscriptions' = Put(subscriptions, hs[h].url,
                            NewRecord(hs[h].chat, hs[h].url, episodes, Now))
    /\ order' = IF hs[h].url \in DOMAIN subscriptions THEN order ELSE Append(order, hs[h].url)
    /\ detached' = IF PollHolds(hs[h].url) /\ ~detached.on
                   THEN [on |-> TRUE, rec |-> subscriptions[hs[h].url]]
                   ELSE detached
    /\ hs' = [hs EXCEPT ![h].pc = "save", ![h].path = "started"]
    /\ ret' = NoRet
    /\ HStep
    /\ UNCHANGED <<persisted, lock, adds, ppc, iter_vars, cur_ok, p_init, new_eps,
                   send_vars>>

HCreate(h) == \E episodes \in scrape_episodes(hs[h].url) : Create(h, episodes)

\* Lines 45 and 75: save_data, entered.
HSaveAcquire(h) ==
    /\ hs[h].pc = "save"
    /\ SaveAcquire(h)
    /\ hs' = [hs EXCEPT ![h].pc = "write"]
    /\ ret' = NoRet
    /\ HStep
    /\ UNCHANGED <<subscriptions, order, persisted, adds, poll_vars>>

\* Lines 45-46 and 75-76: save_data writes and returns, add_show returns.
HSaveWrite(h) ==
    /\ hs[h].pc = "write"
    /\ SaveWrite(h)
    /\ ret' = [ok |-> TRUE, msg |-> hs[h].path]
    /\ hs' = [hs EXCEPT ![h] = IdleLocals]
    /\ HStep
    /\ UNCHANGED <<subscriptions, order, adds, poll_vars>>

----------------------------------------------------------------------------
\* data, the object the loop variable refers to.
Data == IF detached.on THEN detached.rec ELSE subscriptions[cur]

\* An assignment through data.
SetData(rec) ==
    IF detached.on
    THEN detached' = [detached EXCEPT !.rec = rec] /\ UNCHANGED subscriptions
    ELSE subscriptions' = [subscriptions EXCEPT ![cur] = rec] /\ UNCHANGED detached

Aged(map) == [u \in DOMAIN map |-> [map[u] EXCEPT !.last_check = Earlier]]

\* angel.py line 89 and hotstar_handler.py line 165: the sleep ends, so every
\* stored time is in the past; the iterator of line 167 is created.
PStart ==
    /\ ppc = "idle"
    /\ subscriptions' = Aged(subscriptions)
    /\ persisted' = [persisted EXCEPT !.map = Aged(@)]
    /\ ppc' = "next"
    /\ it_used' = Len(order)
    /\ idx' = 0
    /\ notifications' = <<>>
    /\ attempts' = 0
    /\ send_failed' = FALSE
    /\ pres' = "none"
    /\ run_same' = /\ \A h \in HANDLERS : hs[h].pc = "idle"
                   /\ order # <<>>
                   /\ \A u \in DOMAIN subscriptions : last_seen[u] # Unseen
    /\ PStep
    /\ UNCHANGED <<order, lock, hs, adds, cur, item_vars, last_seen>>

\* check_updates is left: by its return, or by an exception.
PReturn(how) ==
    /\ ppc' = "idle"
    /\ pres' = how
    /\ it_used' = 0
    /\ idx' = 0
    /\ cur' = NoUrl
    /\ detached' = NotDetached
    /\ cur_ok' = FALSE
    /\ p_init' = TRUE
    /\ new_eps' = <<>>
    /\ notifications' = <<>>
    /\ attempts' = 0
    /\ send_failed' = FALSE
    /\ run_same' = FALSE
    /\ UNCHANGED last_seen

\* Line 167: the iterator's next().  It raises RuntimeError when the dict has
\* changed size since the iterator was created; the error leaves check_updates.
PNext ==
    /\ ppc = "next"
    /\ IF it_used # Len(order)
       THEN PReturn("raised")
       ELSE IF idx < Len(order)
       THEN /\ idx' = idx + 1
            /\ cur' = order[idx + 1]
            /\ detached' = NotDetached
            /\ ppc' = "scrape"
            /\ pres' = "none"
            /\ UNCHANGED <<it_used, cur_ok, p_init, new_eps, send_vars, hist_vars>>
       ELSE /\ ppc' = "send"
            /\ pres' = "none"
            /\ UNCHANGED <<iter_vars, item_vars, send_vars, hist_vars>>
    /\ PStep
    /\ UNCHANGED <<store_vars, hs, adds>>

\* Diff with a scrape_episodes that lets its exception out instead of returning None.
DiffRaising(current_episodes, monitored) ==
    /\ ppc = "scrape"
    /\ IF ~current_episodes.ok
       THEN /\ PReturn("raised")
            /\ UNCHANGED <<store_vars, hs, adds>>
       ELSE /\ cur_ok' = TRUE
            /\ p_init' = Data.initialized
            /\ LET new == IF Truthy(current_episodes)
                          THEN NewEpisodes(current_episodes.ids, Data.known_episodes)
                          ELSE <<>>
               IN /\ new_eps' = new
                  /\ IF new # <<>>
                     THEN /\ SetData([Data EXCEPT !.known_episodes = @ \o new])
                          /\ ppc' = "notify"
                     ELSE /\ ppc' = "next"
                          /\ UNCHANGED <<subscriptions, detached>>
            /\ run_same' = (run_same /\ current_episodes = last_seen[cur])
            /\ last_seen' = IF monitored
                            THEN [last_seen EXCEPT ![cur] = current_episodes]
                            ELSE last_seen
            /\ pres' = "none"
            /\ UNCHANGED <<order, persisted, lock, hs, adds, iter_vars, send_vars>>
    /\ PStep

\* Lines 168-180: scrape_episodes returns, and the new episodes are appended.
\* A monitored cycle also records what the scrape returned.
Diff(current_episodes, monitored) ==
    /\ ppc = "scrape"
    /\ cur_ok' = current_episodes.ok
    /\ p_init' = Data.initialized
    /\ LET new == IF Truthy(current_episodes)
                  THEN NewEpisodes(current_episodes.ids, Data.known_episodes)
                  ELSE <<>>
       IN /\ new_eps' = new
          /\ IF new # <<>>
             THEN /\ SetData([Data EXCEPT !.known_episodes = @ \o new])
                  /\ ppc' = "notify"
             ELSE /\ ppc' = "next"
                  /\ UNCHANGED <<subscriptions, detached>>
    /\ run_same' = (run_same /\ current_episodes = last_seen[cur])
    /\ last_seen' = IF monitored
                    THEN [last_seen EXCEPT ![cur] = current_episodes]
                    ELSE last_seen
    /\ pres' = "none"
    /\ PStep
    /\ UNCHANGED <<order, persisted, lock, hs, adds, iter_vars, send_vars>>

PDiff == \E current_episodes \in scrape_episodes(cur) : Diff(current_episodes, FALSE)

PDiffMonitored == \E current_episodes \in scrape_episodes(cur) : Diff(current_episodes, TRUE)

\* Lines 185-196.
PNotify ==
    /\ ppc = "notify"
    /\ IF p_init
       THEN /\ notifications' = notifications \o Notifs(Data.subscribers, new_eps, cur)
            /\ UNCHANGED <<subscriptions, detached>>
       ELSE /\ SetData([Data EXCEPT !.initialized = TRUE])
            /\ UNCHANGED notifications
    /\ ppc' = "save"
    /\ new_eps' = <<>>
    /\ pres' = "none"
    /\ PStep
    /\ UNCHANGED <<order, persisted, lock, hs, adds, iter_vars, cur_ok, p_init, attempts,
                   send_failed, hist_vars>>

\* Line 198: save_data, entered.
PSaveAcquire ==
    /\ ppc = "save"
    /\ SaveAcquire(POLL)
    /\ ppc' = "write"
    /\ pres' = "none"
    /\ PStep
    /\ UNCHANGED <<subscriptions, order, persisted, hs, adds, iter_vars,
                   item_vars, send_vars, hist_vars>>

\* Line 198: save_data writes and returns.
PSaveWrite ==
    /\ ppc = "write"
    /\ SaveWrite(POLL)
    /\ ppc' = "next"
    /\ pres' = "none"
    /\ PStep
    /\ UNCHANGED <<subscriptions, order, hs, adds, iter_vars, item_vars, send_vars,
                   hist_vars>>

\* PSend without the try/except around send_message.
PSendRaising ==
    /\ ppc = "send"
    /\ IF attempts < Len(notifications)
       THEN \E delivered \in BOOLEAN :
               IF delivered
               THEN /\ attempts' = attempts + 1
                    /\ pres' = "none"
                    /\ UNCHANGED <<ppc, iter_vars, item_vars, notifications, send_failed,
                                   hist_vars>>
               ELSE PReturn("raised")
       ELSE PReturn("returned")
    /\ PStep
    /\ UNCHANGED <<store_vars, hs, adds>>

\* Lines 201-205: one send_message call, which may raise; the error is logged.
PSend ==
    /\ ppc = "send"
    /\ IF attempts < Len(notifications)
       THEN /\ attempts' = attempts + 1
            /\ \E delivered \in BOOLEAN : send_failed' = (send_failed \/ ~delivered)
            /\ pres' = "none"
            /\ UNCHANGED <<ppc, iter_vars, item_vars, notifications, hist_vars>>
       ELSE PReturn("returned")
    /\ PStep
    /\ UNCHANGED <<store_vars, hs, adds>>

----------------------------------------------------------------------------
Next ==
    \/ \E h \in HANDLERS : HCall(h)
    \/ \E h \in HANDLERS : HAppend(h)
    \/ \E h \in HANDLERS : HCreate(h)
    \/ \E h \in HANDLERS : HSaveAcquire(h)
    \/ \E h \in HANDLERS : HSaveWrite(h)
    \/ PStart
    \/ PNext
    \/ PDiff
    \/ PNotify
    \/ PSaveAcquire
    \/ PSaveWrite
    \/ PSend

Spec == Init /\ [][Next]_vars

----------------------------------------------------------------------------
\* The monitor thread alone, on a store that add_show calls have left behind.
Records(url) ==
    {[NewRecord("101", url, episodes, Earlier) EXCEPT !.subscribers = subs] :
        episodes \in scrape_episodes(url), subs \in {<<"101">>, <<"101", "202">>}}

PollStores ==
    {Put(EmptyMap, U1, r) : r \in Records(U1)}
    \cup {Put(Put(EmptyMap, U1, r1), U2, r2) : r1 \in Records(U1), r2 \in Records(U2)}

InitPoll ==
    /\ subscriptions \in PollStores
    /\ order = IF DOMAIN subscriptions = {U1} THEN <<U1>> ELSE <<U1, U2>>
    /\ persisted = Saved(subscriptions)
    /\ lock = NoThread
    /\ hs = [h \in HANDLERS |-> IdleLocals]
    /\ adds = 0
    /\ ret = NoRet
    /\ ppc = "idle"
    /\ it_used = 0
    /\ idx = 0
    /\ cur = NoUrl
    /\ detached = NotDetached
    /\ cur_ok = FALSE
    /\ p_init = TRUE
    /\ new_eps = <<>>
    /\ notifications = <<>>
    /\ attempts = 0
    /\ send_failed = FALSE
    /\ pres = "none"
    /\ last_seen = [u \in URLS |-> Unseen]
    /\ run_same = FALSE
    /\ page = <<>>
    /\ found = NotParsed

NextPoll ==
    \/ PStart
    \/ PNext
    \/ PDiffMonitored
    \/ PNotify
    \/ PSaveAcquire
    \/ PSaveWrite
    \/ PSend

SpecPoll == InitPoll /\ [][NextPoll]_vars

----------------------------------------------------------------------------
\* scrape_episodes alone, on the pages a fetch can return.
InitScrape ==
    /\ subscriptions = EmptyMap
    /\ order = <<>>
    /\ persisted = Saved(subscriptions)
    /\ lock = NoThread
    /\ hs = [h \in HANDLERS |-> IdleLocals]
    /\ adds = 0
    /\ ret = NoRet
    /\ ppc = "idle"
    /\ it_used = 0
    /\ idx = 0
    /\ cur = NoUrl
    /\ detached = NotDetached
    /\ cur_ok = FALSE
    /\ p_init = TRUE
    /\ new_eps = <<>>
    /\ notifications = <<>>
    /\ attempts = 0
    /\ send_failed = FALSE
    /\ pres = "none"
    /\ last_seen = [u \in URLS |-> Unseen]
    /\ run_same = FALSE
    /\ page \in PAGES
    /\ found = NotParsed

Parse ==
    /\ ~found.done
    /\ found' = [done |-> TRUE, ids |-> ParseLinks(page)]
    /\ UNCHANGED <<store_vars, hs, adds, ret, poll_vars, pres, hist_vars, page>>

NextScrape == Parse

SpecScrape == InitScrape /\ [][NextScrape]_vars

----------------------------------------------------------------------------
\* Properties.

NoDuplicates(seq) == \A i, j \in 1..Len(seq) : i # j => seq[i] # seq[j]
Quiescent == ppc = "idle" /\ \A h \in HANDLERS : hs[h].pc = "idle"
Pair(c, u, e) == [chat_id |-> c, url |-> u, ep |-> e]
Occurrences(seq, x) == Cardinality({i \in 1..Len(seq) : seq[i] = x})

\* C1 (suppression): the first scrape of an uninitialized subscription that
\* succeeds, with a list of any length, does not leave the subscription
\* uninitialized at the loop head; the branch that then initializes it sets
\* initialized and queues no notification.
C1_FirstSuccessInitializes ==
    [][/\ \A r \in scrape_episodes(cur) :
             (r.ok /\ ppc = "scrape" /\ ~Data.initialized /\ Diff(r, FALSE))
                => ppc' = "notify"
       /\ (ppc = "notify" /\ ~p_init /\ ppc' = "save")
             => (Data'.initialized /\ notifications' = notifications)]_vars

\* C2 (serialisation): a thread that has read the store and is about to write
\* it - add_show between lines 43 and 44, check_updates between lines 180 and
\* 196 - holds the lock.
C2_WritesUnderLock ==
    /\ \A h \in HANDLERS : hs[h].pc = "append" => lock = h
    /\ ppc = "notify" => lock = POLL

\* C3 (one send per pair): for an initialized subscription with new episodes,
\* one notification is queued for each (subscriber, new episode) pair and no
\* other, and every queued notification gets its send attempt before the cycle ends.
C3_OneSendPerPair ==
    [][/\ (ppc = "notify" /\ p_init /\ ppc' = "save")
             => LET queued == SubSeq(notifications', Len(notifications) + 1,
                                     Len(notifications'))
                    subs == Range(Data.subscribers)
                IN /\ \A c \in subs, e \in Range(new_eps) :
                         Occurrences(queued, Pair(c, cur, e)) = 1
                   /\ Len(queued) = Cardinality(subs) * Len(new_eps)
       /\ (ppc # "idle" /\ ppc' = "idle") => attempts = Len(notifications)]_vars

\* C4 (monotonicity): no step removes an id from the known_episodes of a
\* tracked subscription.
C4_KnownNeverShrinks ==
    [][\A u \in DOMAIN subscriptions :
          Range(subscriptions[u].known_episodes)
             \subseteq Range(subscriptions'[u].known_episodes)]_vars

\* C5 (idempotence): in a cycle that follows a cycle directly and whose scrapes
\* return, url by url, what they returned in that cycle, no step changes a
\* subscription, nothing is queued and nothing is sent.
C5_SecondRunIsNoOp ==
    [][(run_same /\ (run_same' \/ ppc' = "idle"))
          => /\ subscriptions' = subscriptions
             /\ notifications = <<>> /\ notifications' = <<>>
             /\ attempts = 0 /\ attempts' = 0]_vars

\* The second of two such cycles has scraped both subscriptions, one of them
\* with episodes, and has reached its send loop.
C5_Witness ==
    /\ run_same
    /\ ppc = "send"
    /\ Len(order) = 2
    /\ \E u \in DOMAIN subscriptions :
          /\ last_seen[u].ok
          /\ last_seen[u].ids # <<>>
          /\ subscriptions[u].initialized
          /\ Len(subscriptions[u].subscribers) = 2

\* C6 (isolation of a failed scrape): the step in which a scrape fails changes no
\* record and no file, queues nothing, and leaves the loop at its head with the
\* iterator as it was, so the remaining subscriptions are taken as usual.
C6_FailedScrapeIsSkipped ==
    [][(ppc = "scrape" /\ Diff(ScrapeFailed, FALSE))
          => /\ subscriptions' = subscriptions
             /\ persisted' = persisted
             /\ notifications' = notifications
             /\ ppc' = "next"
             /\ it_used' = it_used /\ idx' = idx /\ order' = order]_vars

\* The scrape of the first of two subscriptions has failed; the second is next.
C6_Witness ==
    /\ ppc = "next"
    /\ ~cur_ok
    /\ idx = 1
    /\ it_used = 2
    /\ Len(order) = 2

\* C7 (creation): the step of add_show that stores the record of a new url
\* stores the requester as the only subscriber, the scraped ids and
\* initialized = true when the scrape succeeded (with any number of episodes),
\* no ids and initialized = false when it failed; the call then returns success.
C7_NewSubscription ==
    [][\A h \in HANDLERS :
          /\ \A r \in scrape_episodes(hs[h].url) :
                (hs[h].pc = "scrape" /\ Create(h, r))
                   => LET rec == subscriptions'[hs[h].url]
                      IN /\ rec.subscribers = <<hs[h].chat>>
                         /\ rec.known_episodes = (IF r.ok THEN r.ids ELSE <<>>)
                         /\ rec.initialized = r.ok
                         /\ hs'[h].path = "started"
          /\ (hs[h].pc = "write" /\ hs[h].path = "started" /\ hs'[h].pc = "idle")
                => ret' = [ok |-> TRUE, msg |-> "started"]]_vars

\* add_show has just stored a record whose seed scrape found no episode.
C7_Witness ==
    \E h \in HANDLERS :
       /\ hs[h].pc = "save"
       /\ hs[h].path = "started"
       /\ subscriptions[hs[h].url].subscribers = <<hs[h].chat>>
       /\ subscriptions[hs[h].url].known_episodes = <<>>
       /\ subscriptions[hs[h].url].initialized

\* C8 (no duplicate subscriber): after every step no subscribers list holds a
\* recipient twice, and a call that reports "already monitoring" changes nothing.
C8_NoDuplicateSubscribers ==
    [][/\ \A u \in DOMAIN subscriptions' : NoDuplicates(subscriptions'[u].subscribers)
       /\ ret'.msg = "already" => subscriptions' = subscriptions]_vars

\* C9 (delivery failure): every step of the send loop is the send attempt of the
\* next queued notification, whatever the earlier attempts did, and the loop is
\* left only after the last attempt, by a normal return.
C9_SendLoopCompletes ==
    [][(ppc = "send" /\ (ppc' # ppc \/ attempts' # attempts))
          => IF attempts < Len(notifications)
             THEN /\ ppc' = "send"
                  /\ attempts' = attempts + 1
                  /\ notifications' = notifications
             ELSE ppc' = "idle" /\ pres' = "returned"]_vars

\* Every queued notification has had its attempt although one attempt failed.
C9_Witness ==
    /\ ppc = "send"
    /\ send_failed
    /\ Len(notifications) >= 2
    /\ attempts = Len(notifications)

\* C10 (write-through): when no add_show or check_updates call is in progress
\* and the last save_data call went through, the file holds the in-memory map.
C10_WriteThrough == (Quiescent /\ persisted.valid) => persisted.map = subscriptions

\* Both mutators have run and returned: a subscriber was added, episodes appended.
C10_Witness ==
    /\ Quiescent
    /\ persisted.valid
    /\ \E u \in DOMAIN subscriptions :
          /\ Len(subscriptions[u].subscribers) = 2
          /\ subscriptions[u].known_episodes # <<>>
          /\ persisted.map[u] = subscriptions[u]

\* C11 (command arguments): a /monitor message with no argument or with more
\* than one argument gets the usage reply and add_show is not called; a single
\* argument without the site's domain gets the validation reply; in both cases
\* the store and the threads' calls stay as they were.
C11_ExactlyOneArgument ==
    [][\A h \in HANDLERS, c \in CHAT_IDS, args \in MESSAGES :
          (FreeWorker(h) /\ adds < MaxAdds /\ monitor_handler(h, c, args))
             => /\ Len(args) # 2
                     => /\ ret'.msg = "usage"
                        /\ adds' = adds
                        /\ hs' = hs
                        /\ subscriptions' = subscriptions
                /\ (Len(args) = 2 /\ ~HasDomain(args[2]))
                     => /\ ret'.msg = "invalid"
                        /\ hs' = hs
                        /\ subscriptions' = subscriptions]_vars

HandlerStep == hs' # hs \/ adds' # adds
PollStep == ppc' # ppc \/ attempts' # attempts

\* C12 (frame): a step of check_updates adds or removes no subscription and
\* changes no subscribers list and no title; a step of add_show leaves
\* known_episodes, initialized and title of every tracked url as they were;
\* no step changes the title of a tracked url.
C12_Frame ==
    [][/\ PollStep
          => /\ DOMAIN subscriptions' = DOMAIN subscriptions
             /\ \A u \in DOMAIN subscriptions :
                   /\ subscriptions'[u].subscribers = subscriptions[u].subscribers
                   /\ subscriptions'[u].title = subscriptions[u].title
       /\ HandlerStep
          => \A u \in DOMAIN subscriptions :
                /\ subscriptions'[u].known_episodes = subscriptions[u].known_episodes
                /\ subscriptions'[u].initialized = subscriptions[u].initialized
       /\ \A u \in DOMAIN subscriptions :
             subscriptions'[u].title = subscriptions[u].title]_vars

\* The path segments of a link, and what the specification derives from them.
Segments(href) == SelectSeq(href, LAMBDA piece : piece # Empty)
SegmentsQualify(segs) ==
    \/ \E i \in 1..Len(segs) : segs[i] = Watch
    \/ isdigit(Last(segs)) /\ Len(Last(segs)) > 5
DerivedId(segs) ==
    IF Last(segs) = Watch /\ Len(segs) > 1 THEN segs[Len(segs) - 1] ELSE Last(segs)
Retained(segs) ==
    /\ segs # <<>>
    /\ SegmentsQualify(segs)
    /\ isdigit(DerivedId(segs))
    /\ Len(DerivedId(segs)) >= 8

\* C13 (link filter): the list scrape_episodes returns for a page holds an
\* episode with the derived id of a link exactly when the link's segments
\* qualify and that id is all digits and at least 8 characters long, and it
\* holds no id twice.
C13_LinkFilter ==
    found.done
       => /\ \A i \in 1..Len(page) :
                LET segs == Segments(page[i])
                IN Retained(segs) <=> (segs # <<>> /\ DerivedId(segs) \in Range(found.ids))
          /\ NoDuplicates(found.ids)

\* C14 (last_check): when a check_updates cycle ends, every subscription whose
\* url it scraped has a last_check of this cycle, not of an earlier time.
C14_LastCheckIsLastAttempt ==
    [][(ppc # "idle" /\ ppc' = "idle")
          => \A i \in 1..idx : subscriptions'[order[i]].last_check = Now]_vars

\* C15 (no lock across a scrape): a thread whose scrape_episodes call is in
\* flight, from add_show or from check_updates, does not hold the lock.
C15_NoLockDuringScrape ==
    /\ \A h \in HANDLERS : hs[h].pc = "scrape" => lock # h
    /\ ppc = "scrape" => lock # POLL

\* A scrape of add_show is in flight, in a thread that does not hold the lock,
\* while the monitor thread is inside save_data.
C15_Witness ==
    \E h \in HANDLERS : hs[h].pc = "scrape" /\ lock = POLL /\ ppc = "write"

\* C16 (at most once), for the sends of one cycle: no send attempt is for a
\* recipient, url and episode that an earlier send attempt was already for.
C16_AtMostOnce ==
    [][(ppc = "send" /\ attempts' = attempts + 1)
          => \A i \in 1..attempts : notifications[i] # notifications[attempts + 1]]_vars

\* C17 (no silently absorbed episode): the ids appended for an initialized
\* subscription are queued for each of its subscribers, and the cycle does not
\* end, by return or by exception, before every queued notification has had
\* its send attempt.
C17_NoAbsorbedEpisode ==
    [][/\ (ppc = "notify" /\ p_init /\ ppc' = "save")
             => \A c \in Range(Data.subscribers), e \in Range(new_eps) :
                   Pair(c, cur, e) \in Range(notifications')
       /\ (ppc # "idle" /\ ppc' = "idle")
             => (pres' = "returned" \/ notifications = <<>>)
                /\ attempts = Len(notifications)]_vars

\* C18 (subscriber retention): when add_show returns success its recipient is
\* a subscriber of its url, and no step removes a subscriber from a tracked url.
C18_SubscriberRetained ==
    [][/\ \A h \in HANDLERS :
             (hs[h].pc = "write" /\ hs'[h].pc = "idle" /\ ret'.ok)
                => hs[h].chat \in Range(subscriptions'[hs[h].url].subscribers)
       /\ \A u \in DOMAIN subscriptions :
             Range(subscriptions[u].subscribers)
                \subseteq Range(subscriptions'[u].subscribers)]_vars

\* C19 (uninitialized means empty): after every step a tracked subscription
\* that is not initialized has no known episode, in memory and in the file,
\* and no step takes a subscription from initialized back to uninitialized.
C19_UninitializedIsEmpty ==
    [][/\ \A u \in DOMAIN subscriptions' :
             ~subscriptions'[u].initialized => subscriptions'[u].known_episodes = <<>>
       /\ \A u \in DOMAIN persisted'.map :
             ~persisted'.map[u].initialized => persisted'.map[u].known_episodes = <<>>
       /\ \A u \in DOMAIN subscriptions :
             subscriptions[u].initialized => subscriptions'[u].initialized]_vars

====
